---- MODULE Spec2Model ----
(***************************************************************************)
(* A model of src/src/regex_impl.rs: the safe layer over the PCRE2 engine. *)
(* The engine itself (pcre2_match and the ffi MatchData) is outside the    *)
(* file; it is modelled at its interface: a deterministic function from    *)
(* (subject, start offset) to "match [s,e)", "no match" or "error".        *)
(***************************************************************************)
EXTENDS Integers, Sequences, FiniteSets, TLC

\* ---------------------------------------------------------------- bounds
MaxLen == 2
AStarMaxLen == 4
SearchMaxLen == 1
ThreadMaxLen == 1
LocsMaxLen == 2
CapMaxLen == 3
MaxHeld == 3

Threads == {"t1", "t2"}

Chars == {"a", "b"}

SubjectsUpTo(n) == UNION {[1..k -> Chars] : k \in 0..n}

\* ------------------------------------------------------------- constants
\* pcre2_sys::PCRE2_UNSET is ~0usize: the offset no match can have.
PCRE2_UNSET == -1

VARIABLES
    subject,    \* the subject both iterators search
    pattern,    \* "opaque": any engine that keeps its contract; "a*", "b": that pattern
    memo,       \* the engine's answers so far, <<subject, start>> -> answer
    capture_names, \* Regex.capture_names: one entry per group, group 0 unnamed
    scratch,    \* this thread's slot of Regex.match_data: None, or Some(ovector of its MatchData)
    locs,       \* the ovector of a CaptureLocations the caller keeps
    last,       \* the latest direct search: what was called, with what, and what came back
    m_it,       \* Matches: [last_end, last_match]
    m_ret,      \* what the latest Matches::next() returned, Idle once the caller dropped it
    m_out,      \* every Match that Matches::next() yielded, in order
    m_trace,    \* the latest Matches::next(): offsets searched from, empty matches suppressed
    m_seen,     \* the kinds of item earlier Matches::next() calls returned
    c_it,       \* CaptureMatches: [last_end, last_match]
    c_ret,      \* as m_ret, for CaptureMatches::next()
    c_out,      \* every Captures that CaptureMatches::next() yielded, in order
    c_trace,    \* as m_trace
    c_seen,     \* as m_seen
    th,         \* per caller of one Regex: its thread, subject, call in progress and Matches
    cache,      \* Regex.match_data: per thread, None or Some(ovector of its MatchData)
    borrowed,   \* the slots of Regex.match_data whose RefCell is mutably borrowed
    users,      \* per slot of Regex.match_data, the threads that searched with it
    allocs,     \* per thread, the MatchData created for it in Regex.match_data
    q_names,    \* the capture_names of a second Regex, Q
    heap,       \* the CaptureLocations of the Captures held: [code, data, fresh]
    cur,        \* the CaptureLocations the caller asked P or Q for, None before it has
    held,       \* the Captures the caller keeps: [subject, locs: place in heap, offsets]
    reads,      \* a captures_read_at with a fresh CaptureLocations that the caller noted
    config,     \* RegexBuilder.config
    built,      \* the latest RegexBuilder::build: what it called and what it returned
    regex,      \* a Regex the caller keeps while it goes on with the builder, None before
    jit_call    \* the latest call of jit or jit_if_available on the builder, None before

vars == <<subject, pattern, capture_names, memo, scratch, locs, last,
          m_it, m_ret, m_out, m_trace, m_seen, c_it, c_ret, c_out, c_trace, c_seen,
          th, cache, borrowed, users, allocs, q_names, heap, cur, held, reads, config, built,
          regex, jit_call>>

iterVars == <<m_it, m_ret, m_out, m_trace, m_seen, c_it, c_ret, c_out, c_trace, c_seen>>
searchVars == <<locs, last>>
threadVars == <<th, cache, borrowed, users, allocs>>
capVars == <<q_names, heap, cur, held, reads>>
buildVars == <<config, built>>
keptVars == <<regex, jit_call>>
restVars == <<threadVars, capVars, buildVars, keptVars>>

\* ------------------------------------------------------------ Option<T>
None == <<>>
Some(x) == <<x>>

\* ----------------------------------------------------- slices of a subject
\* &subject[s..e]: panics unless s <= e <= len.
Slice(seq, s, e) ==
    IF s <= e /\ e <= Len(seq)
    THEN [ok |-> TRUE, val |-> SubSeq(seq, s + 1, e)]
    ELSE [ok |-> FALSE, val |-> <<>>]

\* ------------------------------------------------------------ the engine
NoMatch == [rc |-> "nomatch"]
EngineError == [rc |-> "error"]
Matched(s, e) == [rc |-> "match", s |-> s, e |-> e]

\* What an engine may answer to a search of subj from start: a start beyond
\* the subject is an error; a match lies in [start, len].
EngineContract(subj, start) ==
    IF start > Len(subj)
    THEN {EngineError}
    ELSE {NoMatch, EngineError}
         \cup UNION {{Matched(s, e) : e \in s..Len(subj)} : s \in start..Len(subj)}

\* The pattern a* under greedy leftmost-first matching: it matches at start
\* and takes every 'a' that follows.
AStarSearch(subj, start) ==
    IF start > Len(subj)
    THEN EngineError
    ELSE LET ends == {k \in start..Len(subj) : \A j \in (start + 1)..k : subj[j] = "a"}
             e == CHOOSE k \in ends : \A k2 \in ends : k2 <= k
         IN  Matched(start, e)

\* The pattern b: it matches the first 'b' at or after start.
LiteralBSearch(subj, start) ==
    IF start > Len(subj)
    THEN EngineError
    ELSE LET at == {k \in start..(Len(subj) - 1) : subj[k + 1] = "b"} IN
         IF at = {}
         THEN NoMatch
         ELSE LET s == CHOOSE k \in at : \A k2 \in at : k <= k2 IN Matched(s, s + 1)

\* A match of a pattern with groups: g holds the offset slots of the groups
\* after group 0.
MatchedWith(s, e, g) == [rc |-> "match", s |-> s, e |-> e, g |-> g]

\* The pattern (?<foo>a)|b: it matches the first character at or after start,
\* and the group foo takes part when that character is an 'a'.
NamedAOrBSearch(subj, start) ==
    IF start > Len(subj)
    THEN EngineError
    ELSE IF start = Len(subj)
         THEN NoMatch
         ELSE IF subj[start + 1] = "a"
              THEN MatchedWith(start, start + 1, <<start, start + 1>>)
              ELSE MatchedWith(start, start + 1, <<PCRE2_UNSET, PCRE2_UNSET>>)

\* The engine is deterministic: the answer to a search asked before is the
\* answer given before.
EngineAnswers(mm, subj, start) ==
    CASE pattern = "a*" -> {AStarSearch(subj, start)}
      [] pattern = "b"  -> {LiteralBSearch(subj, start)}
      [] pattern = "(?<foo>a)|b" -> {NamedAOrBSearch(subj, start)}
      [] OTHER ->
           IF <<subj, start>> \in DOMAIN mm
           THEN {mm[<<subj, start>>]}
           ELSE EngineContract(subj, start)

Remember(mm, subj, start, r) ==
    IF <<subj, start>> \in DOMAIN mm THEN mm ELSE mm @@ (<<subj, start>> :> r)

\* --------------------------------------------------------------- MatchData
\* The names a caller may ask a Captures for.
Names == {"foo", "bar"}

\* MatchData::new: an ovector of two slots per capture group, nothing matched.
new_match_data(capture_count) == [i \in 1..(2 * capture_count) |-> PCRE2_UNSET]

\* What a match leaves in slot i of the ovector: group 0 in slots 1 and 2,
\* the other groups after them, unset where the pattern has no group.
MatchData_slot(r, i) ==
    CASE i = 1 -> r.s
      [] i = 2 -> r.e
      [] OTHER -> IF "g" \in DOMAIN r /\ i - 2 <= Len(r.g) THEN r.g[i - 2] ELSE PCRE2_UNSET

\* A MatchData that an error poisons: the error leaves a mark in the first
\* slot, and every later search with it fails.
MatchData_find_poisoned(ov, r) ==
    CASE ov[1] = PCRE2_UNSET - 1 -> [ret |-> "err", ov |-> ov]
      [] r.rc = "match"   -> [ret |-> "true", ov |-> [i \in DOMAIN ov |-> MatchData_slot(r, i)]]
      [] r.rc = "nomatch" -> [ret |-> "false", ov |-> ov]
      [] OTHER            -> [ret |-> "err", ov |-> [ov EXCEPT ![1] = PCRE2_UNSET - 1]]

\* MatchData::find: Ok(true) and the offsets written on a match, Ok(false)
\* on no match, Err otherwise. The engine writes the slots the ovector has.
MatchData_find(ov, r) ==
    CASE r.rc = "match"   -> [ret |-> "true", ov |-> [i \in DOMAIN ov |-> MatchData_slot(r, i)]]
      [] r.rc = "nomatch" -> [ret |-> "false", ov |-> ov]
      [] OTHER            -> [ret |-> "err", ov |-> ov]

\* ------------------------------------------------------------------- Match
Match_new(subj, start, end) == [subject |-> subj, start |-> start, end |-> end]

as_bytes(m) == Slice(m.subject, m.start, m.end)

as_pair(m) == <<m.start, m.end>>

\* ------------------------------------------------------------------- Regex
\* Regex::captures_len: one group for the whole match and one per name slot.
captures_len == Len(capture_names)

\* Regex::new_match_data.
Regex_new_match_data == new_match_data(captures_len)

\* Results of the search methods: a panic, Err, Ok(None) or Ok(Some(m)).
Panic == [tag |-> "Panic"]
Err == [tag |-> "Err"]
OkNone == [tag |-> "OkNone"]
OkSome(m) == [tag |-> "OkSome", m |-> m]
OkBool(b) == [tag |-> "OkBool", b |-> b]

\* Regex::find_at_with_match_data, lines 569-574: what it returns once
\* MatchData::find has returned ret and the MatchData holds ov.
find_at_result(ret, ov, subj) ==
    CASE ret = "err"   -> Err
      [] ret = "false" -> OkNone
      [] OTHER ->
           LET s == ov[1]
               e == ov[2]
               sl == Slice(subj, s, e)
           IN  IF sl.ok THEN OkSome(Match_new(sl.val, s, e)) ELSE Panic

\* Regex::find_at_with_match_data after its assertion: the search with the
\* borrowed MatchData, then the Match built from ovector[0] and ovector[1].
find_at_search(ov, subj, start, r) ==
    LET f == MatchData_find(ov, r) IN
    [res |-> find_at_result(f.ret, f.ov, subj), ov |-> f.ov, searched |-> TRUE]

\* A find_at_with_match_data whose assertion admits every start.
find_at_unchecked(ov, subj, start, r) == find_at_search(ov, subj, start, r)

\* Regex::find_at_with_match_data. r is the engine's answer to this search.
find_at_with_match_data(ov, subj, start, r) ==
    IF ~(start <= Len(subj))
    THEN [res |-> Panic, ov |-> ov, searched |-> FALSE]
    ELSE find_at_search(ov, subj, start, r)

\* Regex::match_data: this thread's MatchData, created if it has none.
match_data(cell) == IF cell = None THEN Some(Regex_new_match_data) ELSE cell

\* Regex::capture_locations: a CaptureLocations with a MatchData of its own.
capture_locations == Regex_new_match_data

\* Regex::is_match_at: the assertion, then the thread's MatchData.
is_match_at(cell, subj, start, r) ==
    IF ~(start <= Len(subj))
    THEN [res |-> Panic, cell |-> cell, searched |-> FALSE]
    ELSE LET md == match_data(cell)
             f == MatchData_find(md[1], r)
         IN  IF f.ret = "err"
             THEN [res |-> Err, cell |-> Some(f.ov), searched |-> TRUE]
             ELSE [res |-> OkBool(f.ret = "true"), cell |-> Some(f.ov), searched |-> TRUE]

\* Regex::find_at: the thread's MatchData is taken before the callee asserts.
find_at(cell, subj, start, r) ==
    LET md == match_data(cell)
        f == find_at_with_match_data(md[1], subj, start, r)
    IN  [res |-> f.res, cell |-> Some(f.ov), searched |-> f.searched]

\* A captures_read_at that searches with the thread's MatchData and copies
\* its offsets into the CaptureLocations given.
captures_read_at_shared(cl, subj, start, r) ==
    IF ~(start <= Len(subj))
    THEN [res |-> Panic, ov |-> cl, searched |-> FALSE]
    ELSE LET f == MatchData_find(IF scratch = None THEN cl ELSE scratch[1], r) IN
         CASE f.ret = "err"   -> [res |-> Err, ov |-> f.ov, searched |-> TRUE]
           [] f.ret = "false" -> [res |-> OkNone, ov |-> f.ov, searched |-> TRUE]
           [] OTHER -> [res |-> OkSome(Match_new(SubSeq(subj, f.ov[1] + 1, f.ov[2]),
                                                 f.ov[1], f.ov[2])),
                        ov |-> f.ov, searched |-> TRUE]

\* A captures_read_at that leaves the CaptureLocations given as it was.
captures_read_at_unwritten(cl, subj, start, r) ==
    IF ~(start <= Len(subj))
    THEN [res |-> Panic, ov |-> cl, searched |-> FALSE]
    ELSE CASE r.rc = "error"   -> [res |-> Err, ov |-> cl, searched |-> TRUE]
           [] r.rc = "nomatch" -> [res |-> OkNone, ov |-> cl, searched |-> TRUE]
           [] OTHER -> [res |-> OkSome(Match_new(SubSeq(subj, r.s + 1, r.e), r.s, r.e)),
                        ov |-> cl, searched |-> TRUE]

\* Regex::captures_read_at: cl is the ovector of the CaptureLocations given.
captures_read_at(cl, subj, start, r) ==
    IF ~(start <= Len(subj))
    THEN [res |-> Panic, ov |-> cl, searched |-> FALSE]
    ELSE LET f == MatchData_find(cl, r) IN
         CASE f.ret = "err"   -> [res |-> Err, ov |-> f.ov, searched |-> TRUE]
           [] f.ret = "false" -> [res |-> OkNone, ov |-> f.ov, searched |-> TRUE]
           [] OTHER ->
                LET s == f.ov[1]
                    e == f.ov[2]
                    sl == Slice(subj, s, e)
                IN  IF sl.ok
                    THEN [res |-> OkSome(Match_new(sl.val, s, e)), ov |-> f.ov,
                          searched |-> TRUE]
                    ELSE [res |-> Panic, ov |-> f.ov, searched |-> TRUE]

\* ---------------------------------------------------------------- Captures
\* A CaptureLocations::get that takes the unset sentinel for an offset.
CaptureLocations_get_unchecked(cl, i) ==
    IF 2 * i + 2 > Len(cl) THEN None ELSE Some(<<cl[2 * i + 1], cl[2 * i + 2]>>)

\* CaptureLocations::get: slot 2i and slot 2i+1, unless missing or unset.
CaptureLocations_get(cl, i) ==
    IF 2 * i + 1 > Len(cl) \/ cl[2 * i + 1] = PCRE2_UNSET
    THEN None
    ELSE IF 2 * i + 2 > Len(cl) \/ cl[2 * i + 2] = PCRE2_UNSET
         THEN None
         ELSE Some(<<cl[2 * i + 1], cl[2 * i + 2]>>)

\* CaptureLocations::len.
CaptureLocations_len(cl) == Len(cl) \div 2

Captures_new(subj, cl) == [subject |-> subj, locs |-> cl]

\* Captures::get.
Captures_get(caps, i) ==
    LET g == CaptureLocations_get(caps.locs, i) IN
    IF g = None THEN None ELSE Some(Match_new(caps.subject, g[1][1], g[1][2]))

\* --------------------------------------------------------------- iterators
\* What next() returns: None, Some(Err), Some(Ok(item)), or it panics.
RetIdle == [tag |-> "Idle"]
RetNone == [tag |-> "None"]
RetErr == [tag |-> "SomeErr"]
RetPanic == [tag |-> "Panic"]
RetOk(x) == [tag |-> "SomeOk", item |-> x]

NoTrace == [starts |-> <<>>, supp |-> <<>>]

Outcome(it, ov, mm, ret, tr) == [it |-> it, ov |-> ov, memo |-> mm, ret |-> ret, trace |-> tr]

\* Regex::find_iter and Regex::captures_iter: the cursor they start with.
new_cursor == [last_end |-> 0, last_match |-> None]

\* Matches::next, line 911: where the search resumes after an empty match.
Matches_after_empty(m) == m.end + 1

\* A resumption that lets the next match begin inside this one.
Matches_after_overlapping(m) == m.start + 1

\* Matches::next, line 918: where the search resumes after a non-empty match.
Matches_after_nonempty(m) == m.end

\* A check that takes every empty match to be adjacent.
Matches_always_adjacent(m, last_match) == TRUE

\* A check that accepts every empty match.
Matches_never_adjacent(m, last_match) == FALSE

\* Matches::next, line 914: an empty match sitting at the end of the match
\* yielded before it.
Matches_is_adjacent(m, last_match) == Some(m.end) = last_match

\* Matches::next, lines 907-920: the cursor after the search found m, and
\* whether m is suppressed rather than yielded.
Matches_advance(it, m) ==
    IF m.start = m.end
    THEN LET it1 == [it EXCEPT !.last_end = Matches_after_empty(m)] IN
         IF Matches_is_adjacent(m, it.last_match)
         THEN [it |-> it1, suppressed |-> TRUE]
         ELSE [it |-> [it1 EXCEPT !.last_match = Some(m.end)], suppressed |-> FALSE]
    ELSE [it |-> [it EXCEPT !.last_end = Matches_after_nonempty(m),
                            !.last_match = Some(m.end)],
          suppressed |-> FALSE]

\* A cursor that is never taken to be past the subject.
Matches_never_exhausted(it, subj) == FALSE

\* Matches::next, line 896: the cursor is past the end of the subject.
Matches_exhausted(it, subj) == it.last_end > Len(subj)

RECURSIVE Matches_next(_, _, _, _, _)
RECURSIVE Matches_retry(_, _, _, _, _)

\* A suppression that ends the call instead of searching again.
Matches_give_up(it, ov, mm, subj, tr) == {Outcome(it, ov, mm, RetNone, tr)}

\* Matches::next, line 915: return self.next().
Matches_retry(it, ov, mm, subj, tr) == Matches_next(it, ov, mm, subj, tr)

\* Matches::next: every outcome the call can have from cursor it, with the
\* thread's MatchData holding ov and the engine having answered mm so far.
Matches_next(it, ov, mm, subj, tr) ==
    IF Matches_exhausted(it, subj)
    THEN {Outcome(it, ov, mm, RetNone, tr)}
    ELSE UNION {
        LET f == find_at_with_match_data(ov, subj, it.last_end, r)
            mm2 == IF f.searched THEN Remember(mm, subj, it.last_end, r) ELSE mm
            tr2 == IF f.searched THEN [tr EXCEPT !.starts = Append(@, it.last_end)] ELSE tr
        IN  CASE f.res = Panic  -> {Outcome(it, f.ov, mm2, RetPanic, tr2)}
              [] f.res = Err    -> {Outcome(it, f.ov, mm2, RetErr, tr2)}
              [] f.res = OkNone -> {Outcome(it, f.ov, mm2, RetNone, tr2)}
              [] OTHER ->
                   LET m == f.res.m
                       a == Matches_advance(it, m)
                   IN  IF a.suppressed
                       THEN Matches_retry(a.it, f.ov, mm2, subj,
                                          [tr2 EXCEPT !.supp = Append(@, m.end)])
                       ELSE {Outcome(a.it, f.ov, mm2, RetOk(m), tr2)}
        : r \in EngineAnswers(mm, subj, it.last_end)}

RECURSIVE CaptureMatches_next(_, _, _, _)

\* CaptureMatches::next: as Matches::next, with a CaptureLocations of its own
\* for every search; the outcome's ov is the locs of the Captures it yields.
CaptureMatches_next(it, mm, subj, tr) ==
    IF it.last_end > Len(subj)
    THEN {Outcome(it, None, mm, RetNone, tr)}
    ELSE UNION {
        LET cl == capture_locations
            f == captures_read_at(cl, subj, it.last_end, r)
            mm2 == IF f.searched THEN Remember(mm, subj, it.last_end, r) ELSE mm
            tr2 == IF f.searched THEN [tr EXCEPT !.starts = Append(@, it.last_end)] ELSE tr
        IN  CASE f.res = Panic  -> {Outcome(it, None, mm2, RetPanic, tr2)}
              [] f.res = Err    -> {Outcome(it, None, mm2, RetErr, tr2)}
              [] f.res = OkNone -> {Outcome(it, None, mm2, RetNone, tr2)}
              [] OTHER ->
                   LET m == f.res.m IN
                   IF m.start = m.end
                   THEN LET it1 == [it EXCEPT !.last_end = m.end + 1] IN
                        IF Some(m.end) = it.last_match
                        THEN CaptureMatches_next(it1, mm2, subj,
                                                 [tr2 EXCEPT !.supp = Append(@, m.end)])
                        ELSE {Outcome([it1 EXCEPT !.last_match = Some(m.end)], f.ov, mm2,
                                      RetOk(Captures_new(subj, f.ov)), tr2)}
                   ELSE {Outcome([it EXCEPT !.last_end = m.end, !.last_match = Some(m.end)],
                                 f.ov, mm2, RetOk(Captures_new(subj, f.ov)), tr2)}
        : r \in EngineAnswers(mm, subj, it.last_end)}

\* No iterator has been called.
NoIterators ==
    /\ m_it = new_cursor
    /\ m_ret = RetIdle
    /\ m_out = <<>>
    /\ m_trace = NoTrace
    /\ m_seen = {}
    /\ c_it = new_cursor
    /\ c_ret = RetIdle
    /\ c_out = <<>>
    /\ c_trace = NoTrace
    /\ c_seen = {}

\* A thread that has called nothing yet.
NewThread(subj, t) ==
    [thread |-> t, subj |-> subj, pc |-> "idle", op |-> "none", slot |-> "none", start |-> 0,
     ret |-> "none", it |-> None, it_slot |-> "none", it0 |-> new_cursor,
     res |-> RetIdle, called |-> FALSE]

\* No thread but this one uses the Regex.
NoThreads ==
    /\ th = [t \in Threads |-> NewThread(<<>>, t)]
    /\ cache = [t \in Threads |-> None]
    /\ borrowed = {}
    /\ users = [t \in Threads |-> {}]
    /\ allocs = [t \in Threads |-> 0]

\* MatchConfig::default: no limit set on the JIT stack.
MatchConfig_default == [max_jit_stack_size |-> None]

\* Config::default.
Config_default ==
    [caseless |-> FALSE, dotall |-> FALSE, extended |-> FALSE, multi_line |-> FALSE,
     crlf |-> FALSE, ucp |-> FALSE, utf |-> FALSE, never_utf |-> FALSE, utf_check |-> TRUE,
     jit |-> "Never", match_config |-> MatchConfig_default]

\* RegexBuilder::new, and no build made with it yet.
NotBuilt == [res |-> "none"]

\* The Regex was built with the default configuration.
NoBuild ==
    /\ config = Config_default
    /\ built = NotBuilt
    /\ regex = None
    /\ jit_call = None

\* No second Regex, and no CaptureLocations or Captures kept by the caller.
NoCaptures ==
    /\ q_names = <<None>>
    /\ heap = <<>>
    /\ cur = None
    /\ held = <<>>
    /\ reads = None

\* No direct search made yet.
NoCall == [op |-> "none", start |-> 0, res |-> OkNone, searched |-> FALSE,
           cell_before |-> None, locs_before |-> <<>>, erred |-> {}]

\* ------------------------------------------------ one thread, two iterators
\* The state after re.find_iter(subject) and re.captures_iter(subject):
\* find_iter has taken this thread's MatchData from the cache, creating it.
InitIter(subjects, pat) ==
    /\ subject \in subjects
    /\ pattern = pat
    /\ capture_names = <<None>>
    /\ memo = <<>>
    /\ scratch = match_data(None)
    /\ locs = capture_locations
    /\ last = NoCall
    /\ NoIterators
    /\ NoThreads
    /\ NoCaptures
    /\ NoBuild

Init == InitIter(SubjectsUpTo(MaxLen), "opaque")

\* The caller calls next() on the Matches iterator.
MatchesNext ==
    /\ m_ret = RetIdle
    /\ \E o \in Matches_next(m_it, scratch[1], memo, subject, NoTrace) :
        /\ m_it' = o.it
        /\ scratch' = Some(o.ov)
        /\ memo' = o.memo
        /\ m_ret' = o.ret
        /\ m_trace' = o.trace
        /\ m_out' = IF o.ret.tag = "SomeOk" THEN Append(m_out, o.ret.item) ELSE m_out
    /\ UNCHANGED <<subject, pattern, capture_names, searchVars, restVars, m_seen,
                   c_it, c_ret, c_out, c_trace, c_seen>>

\* The caller has looked at the item and goes round its loop.
MatchesTake ==
    /\ m_ret # RetIdle
    /\ m_ret # RetPanic
    /\ m_seen' = m_seen \cup {m_ret.tag}
    /\ m_ret' = RetIdle
    /\ UNCHANGED <<subject, pattern, capture_names, memo, scratch, searchVars, restVars,
                   m_it, m_out, m_trace, c_it, c_ret, c_out, c_trace, c_seen>>

\* The caller calls next() on the CaptureMatches iterator.
CaptureMatchesNext ==
    /\ c_ret = RetIdle
    /\ \E o \in CaptureMatches_next(c_it, memo, subject, NoTrace) :
        /\ c_it' = o.it
        /\ memo' = o.memo
        /\ c_ret' = o.ret
        /\ c_trace' = o.trace
        /\ c_out' = IF o.ret.tag = "SomeOk" THEN Append(c_out, o.ret.item) ELSE c_out
    /\ UNCHANGED <<subject, pattern, capture_names, scratch, searchVars, restVars,
                   m_it, m_ret, m_out, m_trace, m_seen, c_seen>>

CaptureMatchesTake ==
    /\ c_ret # RetIdle
    /\ c_ret # RetPanic
    /\ c_seen' = c_seen \cup {c_ret.tag}
    /\ c_ret' = RetIdle
    /\ UNCHANGED <<subject, pattern, capture_names, memo, scratch, searchVars, restVars,
                   m_it, m_ret, m_out, m_trace, m_seen, c_it, c_out, c_trace>>

Next == MatchesNext \/ MatchesTake \/ CaptureMatchesNext \/ CaptureMatchesTake

Spec == Init /\ [][Next]_vars

\* The callers' loops keep running: a call that can be made is made.
FairSpec ==
    /\ Spec
    /\ WF_vars(MatchesNext) /\ WF_vars(MatchesTake)
    /\ WF_vars(CaptureMatchesNext) /\ WF_vars(CaptureMatchesTake)

\* The pattern a*, on every subject of a's and b's up to AStarMaxLen.
InitAStar == InitIter(SubjectsUpTo(AStarMaxLen), "a*")

SpecAStar == InitAStar /\ [][Next]_vars

\* ------------------------------------------------ one thread, direct calls
\* Regex::captures: a CaptureLocations of its own, searched from offset 0
\* (captures_read), kept in the Captures returned on a match.
captures(subj, r) ==
    LET cl == capture_locations
        f == captures_read_at(cl, subj, 0, r)
    IN  IF f.res.tag = "OkSome"
        THEN [res |-> OkSome(Captures_new(subj, f.ov)), searched |-> f.searched]
        ELSE [res |-> f.res, searched |-> f.searched]

\* The state after Regex::capture_locations: the thread has searched nothing
\* yet, so it has no MatchData in the cache.
InitSearch ==
    /\ subject \in SubjectsUpTo(SearchMaxLen)
    /\ pattern = "opaque"
    /\ capture_names = <<None>>
    /\ memo = <<>>
    /\ scratch = None
    /\ locs = capture_locations
    /\ last = NoCall
    /\ NoIterators
    /\ NoThreads
    /\ NoCaptures
    /\ NoBuild

\* The offsets a caller may pass: every valid one, and one past the subject.
Starts == 0..(Len(subject) + 1)

\* What a search method searches with: the thread's MatchData ("cell"), the
\* CaptureLocations given ("locs"), or a CaptureLocations of its own.
ScratchOf(op) ==
    CASE op \in {"is_match_at", "find_at"} -> "cell"
      [] op = "captures_read_at" -> "locs"
      [] OTHER -> "own"

\* The scratches that a search so far has returned Err with.
ErredSoFar == last.erred \cup (IF last.res = Err THEN {ScratchOf(last.op)} ELSE {})

Called(op, start, f) ==
    [op |-> op, start |-> start, res |-> f.res, searched |-> f.searched,
     cell_before |-> scratch, locs_before |-> locs, erred |-> ErredSoFar]

\* re.is_match_at(subject, start); is_match is the call with start = 0.
IsMatchAt ==
    \E start \in Starts : \E r \in EngineAnswers(memo, subject, start) :
        LET f == is_match_at(scratch, subject, start, r) IN
        /\ scratch' = f.cell
        /\ memo' = IF f.searched THEN Remember(memo, subject, start, r) ELSE memo
        /\ last' = Called("is_match_at", start, f)
        /\ UNCHANGED <<subject, pattern, capture_names, locs, iterVars, restVars>>

\* re.find_at(subject, start); find is the call with start = 0.
FindAt ==
    \E start \in Starts : \E r \in EngineAnswers(memo, subject, start) :
        LET f == find_at(scratch, subject, start, r) IN
        /\ scratch' = f.cell
        /\ memo' = IF f.searched THEN Remember(memo, subject, start, r) ELSE memo
        /\ last' = Called("find_at", start, f)
        /\ UNCHANGED <<subject, pattern, capture_names, locs, iterVars, restVars>>

\* re.captures_read_at(&mut locs, subject, start); captures_read is the call
\* with start = 0.
CapturesReadAt ==
    \E start \in Starts : \E r \in EngineAnswers(memo, subject, start) :
        LET f == captures_read_at(locs, subject, start, r) IN
        /\ locs' = f.ov
        /\ memo' = IF f.searched THEN Remember(memo, subject, start, r) ELSE memo
        /\ last' = Called("captures_read_at", start, f)
        /\ UNCHANGED <<subject, pattern, capture_names, scratch, iterVars, restVars>>

\* re.captures(subject).
CapturesCall ==
    \E r \in EngineAnswers(memo, subject, 0) :
        LET f == captures(subject, r) IN
        /\ memo' = IF f.searched THEN Remember(memo, subject, 0, r) ELSE memo
        /\ last' = Called("captures", 0, f)
        /\ UNCHANGED <<subject, pattern, capture_names, scratch, locs, iterVars, restVars>>

NextSearch == IsMatchAt \/ FindAt \/ CapturesReadAt \/ CapturesCall

SpecSearch == InitSearch /\ [][NextSearch]_vars

\* ------------------------------------------------ claims on the direct calls
\* The Match values the latest call handed to the caller: the Match returned
\* by find_at or captures_read_at, and every group of a Captures returned.
MatchesReturned ==
    IF last.res.tag # "OkSome"
    THEN {}
    ELSE IF last.op = "captures"
         THEN {Captures_get(last.res.m, i)[1] :
                 i \in {k \in 0..(captures_len - 1) : Captures_get(last.res.m, k) # None}}
         ELSE {last.res.m}

\* C5: for every Match returned by find, find_at, captures_read,
\* captures_read_at or Captures::get, as_bytes() succeeds and is the
\* subject's [start, end).
C5_AsBytesRoundTrip ==
    \A m \in MatchesReturned :
        /\ as_bytes(m).ok
        /\ as_bytes(m).val = SubSeq(subject, m.start + 1, m.end)

\* What the latest call returns when it searches with a MatchData or a
\* CaptureLocations created for it.
FreshResult ==
    LET r == IF <<subject, last.start>> \in DOMAIN memo
             THEN memo[<<subject, last.start>>]
             ELSE NoMatch
    IN  CASE last.op = "is_match_at" -> is_match_at(None, subject, last.start, r).res
          [] last.op = "find_at" -> find_at(None, subject, last.start, r).res
          [] OTHER -> captures_read_at(capture_locations, subject, last.start, r).res

\* C12: once a search has returned Err, every later is_match_at, find_at or
\* captures_read_at with the MatchData or CaptureLocations the failed search
\* used returns what it returns with one created for it.
C12_ErrorDoesNotPoison ==
    (ScratchOf(last.op) \in last.erred) => last.res = FreshResult

\* A find_at that found a match with the MatchData an earlier search failed
\* with, and a captures_read_at likewise.
C12_Witness ==
    /\ last.erred = {"cell", "locs"}
    /\ last.op = "find_at"
    /\ last.res.tag = "OkSome"
    /\ last.cell_before # None

\* C15: when captures_read_at (captures_read is the call from offset 0)
\* returns Some(m), get(0) of the CaptureLocations given is
\* Some((m.start(), m.end())).
C15_OverallMatchIsGroupZero ==
    (last.op = "captures_read_at" /\ last.res.tag = "OkSome") =>
        CaptureLocations_get(locs, 0) = Some(<<last.res.m.start, last.res.m.end>>)

\* captures_read_at from offset 1 found a match with a CaptureLocations that
\* held another match before.
C15_Witness ==
    /\ last.op = "captures_read_at"
    /\ last.res.tag = "OkSome"
    /\ last.start = 1
    /\ CaptureLocations_get(last.locs_before, 0) # None
    /\ CaptureLocations_get(last.locs_before, 0) # CaptureLocations_get(locs, 0)

\* What a MatchData slot holds: nothing matched when it was never created.
Content(cell) == match_data(cell)[1]

\* C10: is_match_at, find_at and captures_read_at with start > len(subject)
\* panic, with no search made, the thread's MatchData holding what it held
\* and the CaptureLocations given unchanged.
C10_StartBeyondPanics ==
    (last.op \in {"is_match_at", "find_at", "captures_read_at"} /\ last.start > Len(subject)) =>
        /\ last.res = Panic
        /\ ~last.searched
        /\ Content(scratch) = Content(last.cell_before)
        /\ locs = last.locs_before

\* find_at past the end, on a thread whose MatchData holds an earlier match.
C10_Witness ==
    /\ last.op = "find_at"
    /\ last.start = Len(subject) + 1
    /\ last.res = Panic
    /\ last.cell_before # None
    /\ Content(last.cell_before) # Regex_new_match_data
    /\ locs # capture_locations

\* ------------------------------------------- threads sharing one Regex
\* A Regex::match_data that keeps one MatchData for every thread.
Regex_match_data_shared(c, t) ==
    [slot |-> "t1", cache |-> [c EXCEPT !["t1"] = match_data(c["t1"])],
     created |-> c["t1"] = None]

\* A Regex::match_data that creates a MatchData on every call.
Regex_match_data_fresh(c, t) ==
    [slot |-> t, cache |-> [c EXCEPT ![t] = Some(Regex_new_match_data)], created |-> TRUE]

\* Regex::match_data called by thread t: ThreadLocal::get_or gives the
\* thread its own slot, filled by new_match_data if it is empty.
Regex_match_data(c, t) ==
    [slot |-> t, cache |-> [c EXCEPT ![t] = match_data(c[t])], created |-> c[t] = None]

\* Every thread starts with a subject of its own and has called nothing; the
\* Regex they share is compiled from a* or from b.
InitThreads ==
    /\ subject = <<>>
    /\ pattern \in {"a*", "b"}
    /\ capture_names = <<None>>
    /\ memo = <<>>
    /\ scratch = None
    /\ locs = capture_locations
    /\ last = NoCall
    /\ NoIterators
    /\ th \in {[t \in Threads |-> NewThread(g[t], t)] :
                   g \in [Threads -> SubjectsUpTo(ThreadMaxLen)]}
    /\ cache = [t \in Threads |-> None]
    /\ borrowed = {}
    /\ users = [t \in Threads |-> {}]
    /\ allocs = [t \in Threads |-> 0]
    /\ NoCaptures
    /\ NoBuild

Acquire(t, md) ==
    /\ cache' = md.cache
    /\ allocs' = [allocs EXCEPT ![t] = IF md.created THEN @ + 1 ELSE @]

notThreadVars ==
    <<subject, pattern, capture_names, memo, scratch, searchVars, iterVars, capVars, buildVars, keptVars>>

\* Thread t enters is_match(subject) or find(subject): the start offset is 0,
\* and the thread's MatchData is taken from the cache.
BeginSearch(t, op) ==
    /\ th[t].pc = "idle"
    /\ LET md == Regex_match_data(cache, th[t].thread) IN
        /\ Acquire(th[t].thread, md)
        /\ th' = [th EXCEPT ![t] = [@ EXCEPT !.pc = "acquired", !.op = op, !.slot = md.slot,
                                              !.start = 0, !.called = TRUE]]
    /\ UNCHANGED <<borrowed, users, notThreadVars>>

IsMatch == \E t \in Threads : BeginSearch(t, "is_match")

Find == \E t \in Threads : BeginSearch(t, "find")

\* A thread calls find_iter(subject): the Matches keeps a reference to the
\* thread's MatchData.
FindIter ==
    \E t \in Threads :
        /\ th[t].pc = "idle"
        /\ LET md == Regex_match_data(cache, th[t].thread) IN
            /\ Acquire(th[t].thread, md)
            /\ th' = [th EXCEPT ![t] = [@ EXCEPT !.it = Some(new_cursor), !.it_slot = md.slot,
                                                  !.called = TRUE]]
        /\ UNCHANGED <<borrowed, users, notThreadVars>>

\* Matches::next entered with cursor it: None if the subject is exhausted,
\* else on to find_at_with_match_data with the MatchData the Matches holds.
EnterNext(s, it) ==
    IF it.last_end > Len(s.subj)
    THEN [s EXCEPT !.pc = "done", !.op = "next", !.res = RetNone, !.it = Some(it)]
    ELSE [s EXCEPT !.pc = "acquired", !.op = "next", !.slot = s.it_slot,
                   !.start = it.last_end, !.it = Some(it)]

\* A thread calls next() on its Matches.
BeginNext ==
    \E t \in Threads :
        /\ th[t].pc = "idle"
        /\ th[t].it # None
        /\ th' = [th EXCEPT ![t] = EnterNext([@ EXCEPT !.it0 = th[t].it[1]], th[t].it[1])]
        /\ UNCHANGED <<cache, borrowed, users, allocs, notThreadVars>>

\* A thread borrows the MatchData it holds and the engine searches with it;
\* borrow_mut panics if the RefCell is borrowed already.
Search ==
    \E t \in Threads :
        /\ th[t].pc = "acquired"
        /\ LET s == th[t] IN
           IF s.slot \in borrowed \/ ~(s.start <= Len(s.subj))
           THEN /\ th' = [th EXCEPT ![t] = [@ EXCEPT !.pc = "done", !.res = RetPanic]]
                /\ UNCHANGED <<cache, borrowed, users>>
           ELSE \E r \in EngineAnswers(<<>>, s.subj, s.start) :
                LET f == MatchData_find(cache[s.slot][1], r) IN
                /\ cache' = [cache EXCEPT ![s.slot] = Some(f.ov)]
                /\ borrowed' = borrowed \cup {s.slot}
                /\ users' = [users EXCEPT ![s.slot] = @ \cup {s.thread}]
                /\ th' = [th EXCEPT ![t] = [@ EXCEPT !.pc = "searched", !.ret = f.ret]]
        /\ UNCHANGED <<allocs, notThreadVars>>

\* A search that never gives its borrow back.
RefMut_leak(b, slot) == b

\* The RefMut that borrow_mut gave goes out of scope when is_match_at and
\* find_at_with_match_data return: the borrow of the slot ends.
RefMut_drop(b, slot) == b \ {slot}

\* What is_match_at makes of MatchData::find's return.
is_match_result(ret) == IF ret = "err" THEN Err ELSE OkBool(ret = "true")

\* A thread reads the result out of the MatchData and gives the borrow back.
\* In next(), a suppressed empty match goes round again.
Finish ==
    \E t \in Threads :
        /\ th[t].pc = "searched"
        /\ borrowed' = RefMut_drop(borrowed, th[t].slot)
        /\ LET s == th[t]
               found == find_at_result(s.ret, cache[s.slot][1], s.subj)
           IN  th' = [th EXCEPT ![t] =
                 CASE s.op = "is_match" ->
                        [s EXCEPT !.pc = "done", !.res = is_match_result(s.ret)]
                   [] s.op = "find" -> [s EXCEPT !.pc = "done", !.res = found]
                   [] OTHER ->
                        CASE found = Panic  -> [s EXCEPT !.pc = "done", !.res = RetPanic]
                          [] found = Err    -> [s EXCEPT !.pc = "done", !.res = RetErr]
                          [] found = OkNone -> [s EXCEPT !.pc = "done", !.res = RetNone]
                          [] OTHER ->
                               LET a == Matches_advance(s.it[1], found.m) IN
                               IF a.suppressed
                               THEN EnterNext(s, a.it)
                               ELSE [s EXCEPT !.pc = "done", !.res = RetOk(found.m),
                                              !.it = Some(a.it)]]
        /\ UNCHANGED <<cache, users, allocs, notThreadVars>>

\* The call returns and the caller drops what it returned.
Return ==
    \E t \in Threads :
        /\ th[t].pc = "done"
        /\ th[t].res # RetPanic
        /\ th[t].res # Panic
        /\ th' = [th EXCEPT ![t] = [@ EXCEPT !.pc = "idle", !.op = "none", !.res = RetIdle,
                                              !.ret = "none"]]
        /\ UNCHANGED <<cache, borrowed, users, allocs, notThreadVars>>

NextThreads == IsMatch \/ Find \/ FindIter \/ BeginNext \/ Search \/ Finish \/ Return

SpecThreads == InitThreads /\ [][NextThreads]_vars

\* ---------------------------------------------------- claims on the threads
\* What the finished call of thread t returns when no other thread runs:
\* the same call with a MatchData no other call touches.
SingleThreaded(s) ==
    CASE s.op = "is_match" ->
           \E r \in EngineAnswers(<<>>, s.subj, 0) :
               s.res = is_match_at(None, s.subj, 0, r).res
      [] s.op = "find" ->
           \E r \in EngineAnswers(<<>>, s.subj, 0) :
               s.res = find_at(None, s.subj, 0, r).res
      [] OTHER ->
           \E o \in Matches_next(s.it0, Regex_new_match_data, <<>>, s.subj, NoTrace) :
               o.ret = s.res /\ Some(o.it) = s.it

\* C8: no MatchData of the per-thread cache is used by two threads, and every
\* call a thread finishes returns what it returns single-threaded.
C8_ThreadsIndependent ==
    /\ \A k \in Threads : Cardinality(users[k]) <= 1
    /\ \A t \in Threads : th[t].pc = "done" => SingleThreaded(th[t])

\* One thread has a search under way, its MatchData borrowed and written,
\* while the other finishes a find with a different match.
C8_Witness ==
    /\ th["t1"].pc = "searched"
    /\ th["t1"].ret = "true"
    /\ th["t2"].pc = "done"
    /\ th["t2"].op = "find"
    /\ th["t2"].res.tag = "OkSome"
    /\ cache["t1"] # cache["t2"]

\* C9: a thread's calls of is_match, find and find_iter create at most one
\* MatchData for it in the cache: the first call creates it, later calls
\* find it there.
C9_OneScratchPerThread ==
    \A t \in Threads :
        /\ allocs[t] <= 1
        /\ th[t].called <=> (allocs[t] = 1)
        /\ (allocs[t] = 1) <=> (cache[t] # None)

\* A thread that has called find_iter, next and then find, with one scratch.
C9_Witness ==
    /\ th["t1"].it # None
    /\ th["t1"].it # Some(new_cursor)
    /\ th["t1"].pc = "done"
    /\ th["t1"].op = "find"
    /\ allocs["t1"] = 1

\* ------------------------------------------------- claims on the iterators
Pairs(out) == [i \in 1..Len(out) |-> as_pair(out[i])]

\* Group 0 of every Captures yielded, as (start, end) pairs.
CapturePairs(out) == [i \in 1..Len(out) |-> CaptureLocations_get(out[i].locs, 0)[1]]

IsPrefix(s, t) == Len(s) <= Len(t) /\ \A i \in 1..Len(s) : s[i] = t[i]

\* C1: with an engine that reports matches [s,e) with start <= s <= e <= len,
\* consecutive matches yielded by find_iter do not overlap (the next starts at
\* or after the end of the previous) and their starts never decrease.
C1_NonOverlapping ==
    \A i \in 1..(Len(m_out) - 1) :
        /\ m_out[i + 1].start >= m_out[i].end
        /\ m_out[i + 1].start >= m_out[i].start

\* Two matches yielded back to back, the second starting where the first ended.
C1_Witness ==
    /\ Len(m_out) >= 2
    /\ m_out[1].start < m_out[1].end
    /\ m_out[2].start = m_out[1].end

\* C2: find_iter always terminates: the caller's loop reaches a next() that
\* returns None, and no iterator yields more than len(subject) + 1 matches.
C2_Terminates ==
    /\ [](Len(m_out) <= Len(subject) + 1 /\ Len(c_out) <= Len(subject) + 1)
    /\ <>(m_ret = RetNone)
    /\ <>(c_ret = RetNone)

AdjacentEmpty(pairs) ==
    \E i \in 2..Len(pairs) : pairs[i][1] = pairs[i][2] /\ pairs[i][2] = pairs[i - 1][2]

\* Every empty match suppressed in a call was followed, in that call, by a
\* search from the offset after it, unless that offset is past the subject.
RetriedAfter(tr) ==
    \A k \in 1..Len(tr.supp) :
        \/ tr.supp[k] + 1 > Len(subject)
        \/ Len(tr.starts) > k /\ tr.starts[k + 1] = tr.supp[k] + 1

\* C3: neither iterator yields an empty match at the end of the match it
\* yielded before; such a match is suppressed and the search retried from
\* e + 1 within the same next() call.
C3_NoAdjacentEmpty ==
    /\ ~AdjacentEmpty(Pairs(m_out))
    /\ ~AdjacentEmpty(CapturePairs(c_out))
    /\ RetriedAfter(m_trace)
    /\ RetriedAfter(c_trace)

\* A next() that suppressed an empty match, searched again and yielded.
C3_Witness ==
    /\ m_trace.supp # <<>>
    /\ m_ret.tag = "SomeOk"
    /\ Len(m_trace.starts) = 2

AStarExpected(subj) ==
    IF subj = <<"a", "a", "a">>
    THEN << <<0, 3>> >>
    ELSE << <<0, 3>>, <<4, 4>> >>

\* C4: for the pattern a*, find_iter on "aaa" yields (0,3) and then None, and
\* on "aaab" yields (0,3), (4,4) and then None.
C4_AStar ==
    (pattern = "a*" /\ subject \in {<<"a", "a", "a">>, <<"a", "a", "a", "b">>}) =>
        /\ IsPrefix(Pairs(m_out), AStarExpected(subject))
        /\ m_ret.tag \in {"Idle", "SomeOk", "None"}
        /\ (m_ret = RetNone \/ "None" \in m_seen) => Pairs(m_out) = AStarExpected(subject)

\* find_iter on "aaab" has ended, having yielded two matches.
C4_Witness ==
    /\ pattern = "a*"
    /\ subject = <<"a", "a", "a", "b">>
    /\ m_ret = RetNone
    /\ Pairs(m_out) = << <<0, 3>>, <<4, 4>> >>

\* C6: once an iterator has yielded an engine error, every later next()
\* returns None without searching.
C6_ErrorTerminal ==
    /\ ("SomeErr" \in m_seen /\ m_ret # RetIdle) => (m_ret = RetNone /\ m_trace.starts = <<>>)
    /\ ("SomeErr" \in c_seen /\ c_ret # RetIdle) => (c_ret = RetNone /\ c_trace.starts = <<>>)

\* C7: once next() has returned None, every later next() on that iterator
\* returns None.
C7_NoneIsFinal ==
    /\ ("None" \in m_seen /\ m_ret # RetIdle) => m_ret = RetNone
    /\ ("None" \in c_seen /\ c_ret # RetIdle) => c_ret = RetNone

\* A second None from Matches::next, the first having come out of a retry
\* after a suppressed empty match; and a second None from CaptureMatches.
C7_Witness ==
    /\ "None" \in m_seen
    /\ m_ret = RetNone
    /\ m_trace.starts # <<>>
    /\ "None" \in c_seen
    /\ c_ret = RetNone

\* How an iterator's sequence ended, if it has: the kinds of item other than
\* Some(Ok) that its next() has returned.
Ended(ret, seen) == (seen \cup {ret.tag}) \cap {"None", "SomeErr", "Panic"}

\* C17: captures_iter and find_iter yield the same sequence: group 0 of the
\* Captures yielded are the matches yielded, and the sequences end after the
\* same number of items and the same way, with None or with Err.
C17_SameSequence ==
    LET mp == Pairs(m_out)
        cp == CapturePairs(c_out)
        mt == Ended(m_ret, m_seen)
        ct == Ended(c_ret, c_seen)
    IN  /\ IsPrefix(mp, cp) \/ IsPrefix(cp, mp)
        /\ mt # {} => Len(cp) <= Len(mp)
        /\ ct # {} => Len(mp) <= Len(cp)
        /\ (mt # {} /\ ct # {}) => mt = ct

\* Both iterators have yielded the same two matches and ended, find_iter
\* having suppressed an empty match on the way.
C17_Witness ==
    /\ Len(m_out) = 2
    /\ Pairs(m_out) = CapturePairs(c_out)
    /\ m_ret = RetNone
    /\ c_ret = RetNone
    /\ m_trace.supp # <<>>

\* ------------------------------- one thread, CaptureLocations and Captures
\* Regex::captures_len of "P", the Regex searched, and of "Q", another Regex.
Regex_captures_len(re) == IF re = "P" THEN captures_len ELSE Len(q_names)

\* Regex::capture_locations of the Regex re: the Regex's own code, and a
\* MatchData created for it.
Regex_capture_locations(re) ==
    [code |-> re, data |-> new_match_data(Regex_captures_len(re)), fresh |-> TRUE]

\* RegexBuilder::build, lines 183-188: the index of every named group; of
\* two groups of one name the later one stays in the map.
\* An insert that keeps the index a name already has.
HashMap_insert_if_absent(idx, name, i) ==
    [n \in DOMAIN idx \cup {name} |-> IF n \in DOMAIN idx THEN idx[n] ELSE i]

\* HashMap::insert(name, i): the index a name had is replaced.
HashMap_insert(idx, name, i) ==
    [n \in DOMAIN idx \cup {name} |-> IF n = name THEN i ELSE idx[n]]

\* RegexBuilder::build, lines 183-188: the loop over the capture names from
\* entry k on (entry k is group k - 1), idx being the map so far.
RECURSIVE build_idx(_, _, _)
build_idx(names, k, idx) ==
    IF k > Len(names)
    THEN idx
    ELSE build_idx(names, k + 1,
                   IF names[k] # None THEN HashMap_insert(idx, names[k][1], k - 1) ELSE idx)

capture_names_idx == build_idx(capture_names, 1, <<>>)

\* A Captures::name that answers every name with the whole match.
Captures_name_whole(caps, n) == Captures_get(caps, 0)

\* Captures::name.
Captures_name(caps, n) ==
    IF n \in DOMAIN capture_names_idx THEN Captures_get(caps, capture_names_idx[n]) ELSE None

\* A Captures that takes over the CaptureLocations of the Captures before it.
Captures_store_reused(h, cl) == IF h = <<>> THEN <<cl>> ELSE [h EXCEPT ![Len(h)] = cl]

\* Regex::captures and CaptureMatches::next: the CaptureLocations searched
\* with is moved into the Captures returned; it is the last one of the result.
Captures_store(h, cl) == Append(h, cl)

\* The Captures the caller holds, with the CaptureLocations it owns.
Captures_held(c) == Captures_new(c.subject, heap[c.locs].data)

\* P has a group named foo after group 0, Q has group 0 only; the caller has
\* no CaptureLocations yet and has called captures_iter(subject).
InitGroups(subjects) ==
    /\ subject \in subjects
    /\ pattern = "(?<foo>a)|b"
    /\ capture_names = <<None, Some("foo")>>
    /\ q_names = <<None>>
    /\ memo = <<>>
    /\ scratch = None
    /\ locs = capture_locations
    /\ last = NoCall
    /\ heap = <<>>
    /\ cur = None
    /\ held = <<>>
    /\ reads = None
    /\ NoIterators
    /\ NoThreads
    /\ NoBuild

\* locs = p.capture_locations() or locs = q.capture_locations(): the caller
\* drops the CaptureLocations it had.
CaptureLocationsCall ==
    \E re \in {"P", "Q"} :
        /\ cur' = Some(Regex_capture_locations(re))
        /\ UNCHANGED <<subject, pattern, capture_names, memo, scratch, searchVars, iterVars,
                       threadVars, buildVars, keptVars, q_names, heap, held, reads>>

\* p.captures_read_at(&mut locs, subject, start) with the CaptureLocations
\* the caller has, whichever Regex made it.
CapturesReadAtWith ==
    /\ cur # None
    /\ \E start \in Starts : \E r \in EngineAnswers(memo, subject, start) :
        LET cl == cur[1]
            f == captures_read_at(cl.data, subject, start, r)
        IN  /\ cur' = Some([cl EXCEPT !.data = f.ov, !.fresh = @ /\ ~f.searched])
            /\ memo' = IF f.searched THEN Remember(memo, subject, start, r) ELSE memo
            /\ \E note \in {b \in BOOLEAN : b => (cl.fresh /\ cl.code = "P" /\ reads = None)} :
                /\ last' = [op |-> "captures_read_at", start |-> start, res |-> f.res,
                            searched |-> f.searched, locs_code |-> cl.code,
                            fresh |-> cl.fresh, data |-> f.ov, noted |-> note]
                /\ reads' = IF note
                            THEN Some([start |-> start, res |-> f.res, data |-> f.ov])
                            ELSE reads
    /\ UNCHANGED <<subject, pattern, capture_names, scratch, locs, iterVars, threadVars,
                   buildVars, keptVars, q_names, heap, held>>

\* The caller keeps the Captures made of CaptureLocations cl, or drops it
\* when it holds MaxHeld of them.
Keep(cl) ==
    IF Len(held) < MaxHeld
    THEN /\ heap' = Captures_store(heap, [code |-> "P", data |-> cl, fresh |-> FALSE])
         /\ held' = Append(held, [subject |-> subject, locs |-> Len(heap'), offsets |-> cl])
    ELSE UNCHANGED <<heap, held>>

\* p.captures(subject), the Captures kept if there is one.
CapturesKept ==
    /\ \E r \in EngineAnswers(memo, subject, 0) :
        LET f == captures(subject, r) IN
        /\ memo' = IF f.searched THEN Remember(memo, subject, 0, r) ELSE memo
        /\ IF f.res.tag = "OkSome" THEN Keep(f.res.m.locs) ELSE UNCHANGED <<heap, held>>
    /\ UNCHANGED <<subject, pattern, capture_names, scratch, searchVars, iterVars, threadVars,
                   buildVars, keptVars, q_names, cur, reads>>

\* next() on p.captures_iter(subject), the Captures kept if it yields one.
CaptureMatchesKept ==
    /\ \E o \in CaptureMatches_next(c_it, memo, subject, NoTrace) :
        /\ c_it' = o.it
        /\ memo' = o.memo
        /\ c_trace' = o.trace
        /\ IF o.ret.tag = "SomeOk" THEN Keep(o.ret.item.locs) ELSE UNCHANGED <<heap, held>>
    /\ UNCHANGED <<subject, pattern, capture_names, scratch, searchVars, threadVars, buildVars, keptVars,
                   m_it, m_ret, m_out, m_trace, m_seen, c_ret, c_out, c_seen,
                   q_names, cur, reads>>

\* p.find(subject), on the same thread: the search uses the thread's MatchData.
FindCall ==
    /\ \E r \in EngineAnswers(memo, subject, 0) :
        LET f == find_at(scratch, subject, 0, r) IN
        /\ scratch' = f.cell
        /\ memo' = IF f.searched THEN Remember(memo, subject, 0, r) ELSE memo
    /\ UNCHANGED <<subject, pattern, capture_names, searchVars, iterVars, threadVars,
                   buildVars, keptVars, capVars>>

\* The caller reads captures into CaptureLocations it asked P or Q for.
NextLocs == CaptureLocationsCall \/ CapturesReadAtWith \/ FindCall

InitLocs == InitGroups(SubjectsUpTo(LocsMaxLen))

SpecLocs == InitLocs /\ [][NextLocs]_vars

\* The caller keeps the Captures that captures and captures_iter give it.
NextCaptures == CapturesKept \/ CaptureMatchesKept \/ FindCall

InitCaptures == InitGroups(SubjectsUpTo(CapMaxLen))

SpecCaptures == InitCaptures /\ [][NextCaptures]_vars

\* ------------------------------------- claims on CaptureLocations, Captures
\* C11: captures_read_at of P never searches with a CaptureLocations made by
\* another Regex: P's code never meets a MatchData allocated for Q.
C11_ForeignLocsRejected ==
    (last.op = "captures_read_at" /\ last.locs_code # "P") =>
        (last.res = Panic /\ ~last.searched)

\* The groups of P named n.
GroupsNamed(n) == {k \in 0..(captures_len - 1) : capture_names[k + 1] = Some(n)}

\* C13: Captures::name(n) is None when no group has the name n or the group
\* of that name took no part in the match, and is Captures::get of that
\* group otherwise; get(0) is the whole match whatever the groups did.
C13_NameLookup ==
    \A i \in 1..Len(held) :
        LET caps == Captures_held(held[i]) IN
        /\ \A n \in Names :
            IF GroupsNamed(n) = {}
            THEN Captures_name(caps, n) = None
            ELSE \A k \in GroupsNamed(n) :
                    /\ Captures_name(caps, n) = Captures_get(caps, k)
                    /\ caps.locs[2 * k + 1] = PCRE2_UNSET => Captures_name(caps, n) = None
                    /\ caps.locs[2 * k + 1] # PCRE2_UNSET =>
                         Captures_name(caps, n) =
                             Some(Match_new(caps.subject, caps.locs[2 * k + 1],
                                            caps.locs[2 * k + 2]))
        /\ Captures_get(caps, 0) = Some(Match_new(caps.subject, caps.locs[1], caps.locs[2]))
        /\ caps.locs[1] # PCRE2_UNSET

\* A Captures of a match the group foo took no part in, and one of a match
\* it took part in.
C13_Witness ==
    /\ \E i \in 1..Len(held) :
        /\ Captures_name(Captures_held(held[i]), "foo") = None
        /\ Captures_get(Captures_held(held[i]), 0) # None
    /\ \E i \in 1..Len(held) : Captures_name(Captures_held(held[i]), "foo") # None

\* Every CaptureLocations alive: the caller's and those of the Captures held.
AllLocs == (IF cur = None THEN {} ELSE {cur[1]}) \cup {heap[i] : i \in 1..Len(heap)}

\* C14: len() of a CaptureLocations is the capture count of the pattern it
\* was made for and at least 1; get(i) is None when i >= len() or a slot of
\* group i is unset, and the pair (ovector[2i], ovector[2i+1]) otherwise.
C14_LenAndGet ==
    \A cl \in AllLocs :
        /\ CaptureLocations_len(cl.data) = Regex_captures_len(cl.code)
        /\ CaptureLocations_len(cl.data) >= 1
        /\ \A i \in 0..(CaptureLocations_len(cl.data) + 1) :
            CaptureLocations_get(cl.data, i) =
                IF \/ i >= CaptureLocations_len(cl.data)
                   \/ cl.data[2 * i + 1] = PCRE2_UNSET
                   \/ cl.data[2 * i + 2] = PCRE2_UNSET
                THEN None
                ELSE Some(<<cl.data[2 * i + 1], cl.data[2 * i + 2]>>)

\* The caller's CaptureLocations holds a match the second group took no part in.
C14_Witness ==
    /\ cur # None
    /\ cur[1].code = "P"
    /\ CaptureLocations_get(cur[1].data, 0) # None
    /\ CaptureLocations_get(cur[1].data, 1) = None
    /\ CaptureLocations_len(cur[1].data) = 2

\* C16: a captures_read_at with a fresh CaptureLocations returns what an
\* earlier one from the same offset with a fresh CaptureLocations returned,
\* and leaves the offsets that one left.
C16_ReadIsRepeatable ==
    (/\ reads # None
     /\ last.op = "captures_read_at"
     /\ last.fresh
     /\ last.locs_code = "P"
     /\ last.start = reads[1].start) =>
        /\ last.res = reads[1].res
        /\ last.data = reads[1].data

\* A second read from an offset, a find in between having used the thread's
\* MatchData.
C16_Witness ==
    /\ reads # None
    /\ last.op = "captures_read_at"
    /\ last.fresh
    /\ last.locs_code = "P"
    /\ ~last.noted
    /\ last.start = reads[1].start
    /\ scratch # None
    /\ last.res.tag = "OkNone"

\* C18: a Captures the caller was given keeps the offsets it had when it was
\* given, whatever is searched afterwards.
C18_CapturesKeepOffsets ==
    \A i \in 1..Len(held) : heap[held[i].locs].data = held[i].offsets

\* Two Captures of different matches are held, the iterator has ended, and
\* the thread has searched with its own MatchData.
C18_Witness ==
    /\ Len(held) >= 2
    /\ held[1].offsets # held[2].offsets
    /\ c_it.last_end = Len(subject)
    /\ c_trace.starts = <<Len(subject)>>
    /\ scratch # None

\* ------------------------------------------------------------ RegexBuilder
\* What the engine does when build calls it: whether Code::new,
\* Code::jit_compile and Code::capture_names succeed.
EngineOutcomes == [compile_ok : BOOLEAN, jit_ok : BOOLEAN, names_ok : BOOLEAN]

\* A translation in which Unicode-property mode sets its own flag only.
build_options_ucp_only(cfg) ==
    (IF cfg.caseless THEN {"PCRE2_CASELESS"} ELSE {})
    \cup (IF cfg.dotall THEN {"PCRE2_DOTALL"} ELSE {})
    \cup (IF cfg.extended THEN {"PCRE2_EXTENDED"} ELSE {})
    \cup (IF cfg.multi_line THEN {"PCRE2_MULTILINE"} ELSE {})
    \cup (IF cfg.ucp THEN {"PCRE2_UCP"} ELSE {})
    \cup (IF cfg.utf THEN {"PCRE2_UTF"} ELSE {})
    \cup (IF cfg.never_utf THEN {"PCRE2_NEVER_UTF"} ELSE {})

\* RegexBuilder::build, lines 139-161: the compile options, a set of flags
\* for the bits or-ed together.
build_options(cfg) ==
    (IF cfg.caseless THEN {"PCRE2_CASELESS"} ELSE {})
    \cup (IF cfg.dotall THEN {"PCRE2_DOTALL"} ELSE {})
    \cup (IF cfg.extended THEN {"PCRE2_EXTENDED"} ELSE {})
    \cup (IF cfg.multi_line THEN {"PCRE2_MULTILINE"} ELSE {})
    \cup (IF cfg.ucp THEN {"PCRE2_UCP", "PCRE2_UTF"} ELSE {})
    \cup (IF cfg.utf THEN {"PCRE2_UTF"} ELSE {})
    \cup (IF cfg.never_utf THEN {"PCRE2_NEVER_UTF"} ELSE {})

\* RegexBuilder::build, lines 163-167: the newline convention of the context.
build_newline(cfg) == IF cfg.crlf THEN "PCRE2_NEWLINE_ANYCRLF" ELSE "default"

\* A JIT step that fails the build under every policy that compiles.
build_jit_strict(policy, jit_ok) ==
    CASE policy = "Never" -> [called |-> FALSE, failed |-> FALSE]
      [] OTHER            -> [called |-> TRUE, failed |-> ~jit_ok]

\* RegexBuilder::build, lines 171-181: whether jit_compile is called, and
\* whether its failure fails the build.
build_jit(policy, jit_ok) ==
    CASE policy = "Never"  -> [called |-> FALSE, failed |-> FALSE]
      [] policy = "Always" -> [called |-> TRUE, failed |-> ~jit_ok]
      [] OTHER             -> [called |-> TRUE, failed |-> FALSE]

\* RegexBuilder::build with configuration cfg, the engine doing eng.
build(cfg, eng) ==
    LET called == [config |-> cfg, engine |-> eng, options |-> build_options(cfg),
                   newline |-> build_newline(cfg)]
    IN  IF ~eng.compile_ok
        THEN called @@ [res |-> "Err", jit_called |-> FALSE, names_called |-> FALSE,
                        idx |-> <<>>]
        ELSE LET j == build_jit(cfg.jit, eng.jit_ok) IN
             IF j.failed
             THEN called @@ [res |-> "Err", jit_called |-> j.called, names_called |-> FALSE,
                             idx |-> <<>>]
             ELSE called @@ [res |-> IF eng.names_ok THEN "Ok" ELSE "Err",
                             jit_called |-> j.called, names_called |-> TRUE,
                             idx |-> IF eng.names_ok THEN capture_names_idx ELSE <<>>]

\* RegexBuilder::new().
InitBuild ==
    /\ subject = <<>>
    /\ pattern = "opaque"
    /\ capture_names = <<None>>
    /\ memo = <<>>
    /\ scratch = None
    /\ locs = capture_locations
    /\ last = NoCall
    /\ NoIterators
    /\ NoThreads
    /\ NoCaptures
    /\ NoBuild

\* A setter leaves the configuration cfg, and call as the latest call of jit
\* or jit_if_available; the caller has dropped the result of the build before.
Setter(cfg, call) ==
    /\ config' = cfg
    /\ built' = NotBuilt
    /\ jit_call' = call
    /\ UNCHANGED <<subject, pattern, capture_names, memo, scratch, searchVars, iterVars,
                   threadVars, capVars, regex>>

\* A setter other than jit and jit_if_available.
Set(cfg) == Setter(cfg, jit_call)

Caseless == \E yes \in BOOLEAN : Set([config EXCEPT !.caseless = yes])

Dotall == \E yes \in BOOLEAN : Set([config EXCEPT !.dotall = yes])

Extended == \E yes \in BOOLEAN : Set([config EXCEPT !.extended = yes])

MultiLine == \E yes \in BOOLEAN : Set([config EXCEPT !.multi_line = yes])

Crlf == \E yes \in BOOLEAN : Set([config EXCEPT !.crlf = yes])

Ucp == \E yes \in BOOLEAN : Set([config EXCEPT !.ucp = yes])

Utf == \E yes \in BOOLEAN : Set([config EXCEPT !.utf = yes])

NeverUtf == \E yes \in BOOLEAN : Set([config EXCEPT !.never_utf = yes])

DisableUtfCheck == Set([config EXCEPT !.utf_check = FALSE])

\* A jit that leaves a best-effort policy in place when it is passed false.
RegexBuilder_jit_sticky(cfg, yes) ==
    IF yes
    THEN [cfg EXCEPT !.jit = "Always"]
    ELSE IF cfg.jit = "Attempt" THEN cfg ELSE [cfg EXCEPT !.jit = "Never"]

\* RegexBuilder::jit(yes).
RegexBuilder_jit(cfg, yes) == [cfg EXCEPT !.jit = IF yes THEN "Always" ELSE "Never"]

\* RegexBuilder::jit_if_available(yes).
RegexBuilder_jit_if_available(cfg, yes) ==
    [cfg EXCEPT !.jit = IF yes THEN "Attempt" ELSE "Never"]

\* RegexBuilder::max_jit_stack_size(bytes).
RegexBuilder_max_jit_stack_size(cfg, bytes) ==
    [cfg EXCEPT !.match_config.max_jit_stack_size = bytes]

Jit ==
    \E yes \in BOOLEAN :
        Setter(RegexBuilder_jit(config, yes), Some([setter |-> "jit", yes |-> yes]))

JitIfAvailable ==
    \E yes \in BOOLEAN :
        Setter(RegexBuilder_jit_if_available(config, yes),
               Some([setter |-> "jit_if_available", yes |-> yes]))

MaxJitStackSize ==
    \E bytes \in {None, Some(32768)} : Set(RegexBuilder_max_jit_stack_size(config, bytes))

\* builder.build(pattern).
Build ==
    /\ \E eng \in EngineOutcomes : built' = build(config, eng)
    /\ UNCHANGED <<subject, pattern, capture_names, memo, scratch, searchVars, iterVars,
                   threadVars, capVars, config, keptVars>>

NextBuild ==
    \/ Caseless \/ Dotall \/ Extended \/ MultiLine \/ Crlf \/ Ucp \/ Utf \/ NeverUtf
    \/ DisableUtfCheck \/ Jit \/ JitIfAvailable \/ MaxJitStackSize \/ Build

SpecBuild == InitBuild /\ [][NextBuild]_vars

\* ------------------------------------------------------ claims on the build
\* C19: build calls jit_compile only after Code::new succeeded, and never
\* under the policy Never; under Always a JIT failure fails the build; under
\* Attempt the build succeeds exactly when compilation and the extraction of
\* the capture names succeed, whatever the JIT does.
C19_JitPolicy ==
    built # NotBuilt =>
        /\ built.jit_called => built.engine.compile_ok
        /\ built.config.jit = "Never" => ~built.jit_called
        /\ (built.config.jit = "Always" /\ built.engine.compile_ok /\ ~built.engine.jit_ok) =>
             (built.jit_called /\ built.res = "Err")
        /\ built.config.jit = "Attempt" =>
             (built.res = "Ok" <=> (built.engine.compile_ok /\ built.engine.names_ok))

\* A build under Attempt that succeeded although the JIT failed.
C19_Witness ==
    /\ built # NotBuilt
    /\ built.config.jit = "Attempt"
    /\ built.jit_called
    /\ ~built.engine.jit_ok
    /\ built.res = "Ok"

\* C20: the options build compiles with hold PCRE2_UCP and PCRE2_UTF when
\* ucp is enabled, whatever utf is; PCRE2_UTF is there exactly when ucp or
\* utf is enabled, and every other flag exactly when its toggle is, the
\* newline convention of crlf included.
C20_UcpImpliesUtf ==
    built # NotBuilt =>
        LET o == built.options
            cfg == built.config
        IN  /\ cfg.ucp => {"PCRE2_UCP", "PCRE2_UTF"} \subseteq o
            /\ "PCRE2_UCP" \in o <=> cfg.ucp
            /\ "PCRE2_UTF" \in o <=> (cfg.ucp \/ cfg.utf)
            /\ "PCRE2_CASELESS" \in o <=> cfg.caseless
            /\ "PCRE2_DOTALL" \in o <=> cfg.dotall
            /\ "PCRE2_EXTENDED" \in o <=> cfg.extended
            /\ "PCRE2_MULTILINE" \in o <=> cfg.multi_line
            /\ "PCRE2_NEVER_UTF" \in o <=> cfg.never_utf
            /\ built.newline = "PCRE2_NEWLINE_ANYCRLF" <=> cfg.crlf

\* A build with ucp enabled and utf disabled, other toggles having been set.
C20_Witness ==
    /\ built # NotBuilt
    /\ built.config.ucp
    /\ ~built.config.utf
    /\ built.config.caseless
    /\ built.config.never_utf
    /\ ~built.config.utf_check
    /\ "PCRE2_UTF" \in built.options
    /\ built.res = "Ok"

\* ---------------------------------------------- claims on the cursor state
\* A next() call took the cursor from it to it2, returned ret and left the
\* trace tr; found is the (start, end) of the match it yielded, if it did.
\* The cursor does not go back. Each search of the call that finds nothing or
\* fails leaves the cursor as it was, so a call that returns None or an error
\* changes it only by the empty match it found and suppressed before; a match
\* found puts last_end at its end, or one past it when it is empty.
CursorStep(it, it2, ret, tr, found) ==
    /\ it2.last_end >= it.last_end
    /\ (ret \in {RetNone, RetErr} /\ tr.supp = <<>>) => it2 = it
    /\ (ret \in {RetNone, RetErr} /\ tr.supp # <<>>) =>
          /\ it2.last_match = it.last_match
          /\ it2.last_end = tr.supp[Len(tr.supp)] + 1
    /\ ret.tag = "SomeOk" =>
          /\ it2.last_match = Some(found[2])
          /\ it2.last_end = IF found[1] = found[2] THEN found[2] + 1 ELSE found[2]

\* C24: in both iterators last_end never decreases from one next() call to
\* the next; a search of next() that finds no match or fails leaves last_end
\* and last_match unchanged, and one that finds a match ending at e sets
\* last_end to e, or to e + 1 when the match is empty.
C24_LastEndNeverDecreases ==
    [][/\ m_it'.last_end >= m_it.last_end
       /\ c_it'.last_end >= c_it.last_end
       /\ (m_ret = RetIdle /\ m_ret' # RetIdle) =>
             CursorStep(m_it, m_it', m_ret', m_trace',
                        IF m_ret'.tag = "SomeOk" THEN as_pair(m_ret'.item) ELSE <<0, 0>>)
       /\ (c_ret = RetIdle /\ c_ret' # RetIdle) =>
             CursorStep(c_it, c_it', c_ret', c_trace',
                        IF c_ret'.tag = "SomeOk"
                        THEN CaptureLocations_get(c_ret'.item.locs, 0)[1]
                        ELSE <<0, 0>>)]_vars

\* A next() that suppressed an empty match and then failed, the other
\* iterator having yielded a non-empty match.
C24_Witness ==
    /\ m_ret = RetErr
    /\ m_trace.supp # <<>>
    /\ m_it.last_end = m_trace.supp[1] + 1
    /\ \E j \in 1..Len(c_out) : CapturePairs(c_out)[j][1] < CapturePairs(c_out)[j][2]

\* C25: every search that the next() of either iterator issues, the retry
\* after a suppressed empty match included, starts at an offset that is at
\* most the length of the subject, so that the assertion on the start offset
\* never fires inside next().
C25_SearchWithinSubject ==
    /\ m_ret # RetPanic
    /\ c_ret # RetPanic
    /\ \A i \in 1..Len(m_trace.starts) : m_trace.starts[i] <= Len(subject)
    /\ \A i \in 1..Len(c_trace.starts) : c_trace.starts[i] <= Len(subject)

\* The retry after a suppressed empty match searched from the very end of
\* the subject and found the empty match there; the next call is exhausted.
C25_Witness ==
    /\ Len(m_trace.starts) = 2
    /\ m_trace.starts[2] = Len(subject)
    /\ m_ret.tag = "SomeOk"
    /\ m_it.last_end = Len(subject) + 1
    /\ c_ret = RetNone
    /\ c_trace.starts = <<>>

\* C26: one next() call of either iterator suppresses at most one empty
\* match: it searches the engine at most twice and retries at most once,
\* whatever the pattern and the subject.
C26_RetryBounded ==
    /\ Len(m_trace.supp) <= 1
    /\ Len(m_trace.starts) <= 2
    /\ Len(m_trace.starts) <= Len(m_trace.supp) + 1
    /\ Len(c_trace.supp) <= 1
    /\ Len(c_trace.starts) <= 2
    /\ Len(c_trace.starts) <= Len(c_trace.supp) + 1

\* Both iterators suppressed an empty match and searched a second time, the
\* second search of one finding an empty match again, which it yielded.
C26_Witness ==
    /\ Len(m_trace.supp) = 1
    /\ Len(m_trace.starts) = 2
    /\ m_ret.tag = "SomeOk"
    /\ m_ret.item.start = m_ret.item.end
    /\ Len(c_trace.supp) = 1
    /\ Len(c_trace.starts) = 2

\* The policy that the latest call of jit or jit_if_available asks for, None
\* being no call of either.
PolicyAsked(call) ==
    CASE call = None               -> "Never"
      [] ~call[1].yes              -> "Never"
      [] call[1].setter = "jit"    -> "Always"
      [] OTHER                     -> "Attempt"

\* C23: after any calls of jit and jit_if_available, among other setters,
\* the JIT policy of the builder, and of a build made with it, is the one the
\* latest of these calls asks for: jit(true) always, jit_if_available(true)
\* best effort, either with false never; it is never when neither was called.
C23_LastJitSetterWins ==
    /\ config.jit = PolicyAsked(jit_call)
    /\ built # NotBuilt =>
          /\ built.config.jit = PolicyAsked(jit_call)
          /\ built.engine.compile_ok =>
                (built.jit_called <=> PolicyAsked(jit_call) # "Never")

\* A successful build that made no JIT call, jit(false) being the latest of
\* the two setters called and another toggle having been set.
C23_Witness ==
    /\ jit_call = Some([setter |-> "jit", yes |-> FALSE])
    /\ built # NotBuilt
    /\ built.engine.compile_ok
    /\ ~built.jit_called
    /\ built.config.caseless
    /\ built.res = "Ok"

\* ------------------------------------------------------ the capture names
MaxGroups == 3

\* The capture-name lists of the patterns with up to n groups after group
\* 0: group 0 has no name, a group may have the name of another.
NameLists(n) ==
    {<<None>> \o s : s \in UNION {[1..k -> {None} \cup {Some(x) : x \in Names}] : k \in 0..n}}

\* RegexBuilder::new(), and a pattern with any of the capture-name lists.
InitNames ==
    /\ subject = <<>>
    /\ pattern = "opaque"
    /\ capture_names \in NameLists(MaxGroups)
    /\ memo = <<>>
    /\ scratch = None
    /\ locs = capture_locations
    /\ last = NoCall
    /\ NoIterators
    /\ NoThreads
    /\ NoCaptures
    /\ NoBuild

NextNames == Jit \/ JitIfAvailable \/ Build

SpecNames == InitNames /\ [][NextNames]_vars

\* C22: the map of names that build makes takes every group name to the
\* greatest index whose entry of the capture-name list is that name, has a key
\* for every named group, and takes no name to an entry without a name.
C22_NameIndexLastWins ==
    (built # NotBuilt /\ built.res = "Ok") =>
        /\ \A n \in DOMAIN built.idx :
              /\ built.idx[n] + 1 \in 1..Len(capture_names)
              /\ capture_names[built.idx[n] + 1] = Some(n)
              /\ \A k \in 1..Len(capture_names) :
                    capture_names[k] = Some(n) => k - 1 <= built.idx[n]
        /\ \A k \in 1..Len(capture_names) :
              capture_names[k] # None => capture_names[k][1] \in DOMAIN built.idx

\* A build of a pattern with two groups of one name around a group of another.
C22_Witness ==
    /\ built # NotBuilt
    /\ built.res = "Ok"
    /\ capture_names = <<None, Some("foo"), Some("bar"), Some("foo")>>
    /\ built.idx["foo"] = 3
    /\ built.idx["bar"] = 2

\* ------------------------------------------------ a Regex and its builder
FlagMaxLen == 1

\* A search that passes no option to the engine.
no_match_options(cfg) == {}

\* is_match_at, lines 513-516: the options of its engine search, a set of
\* flags for the bits or-ed together.
is_match_at_options(cfg) == IF ~cfg.utf_check THEN {"PCRE2_NO_UTF_CHECK"} ELSE {}

\* find_at_with_match_data, lines 559-562.
find_at_with_match_data_options(cfg) ==
    IF ~cfg.utf_check THEN {"PCRE2_NO_UTF_CHECK"} ELSE {}

\* captures_read_at, lines 614-617.
captures_read_at_options(cfg) == IF ~cfg.utf_check THEN {"PCRE2_NO_UTF_CHECK"} ELSE {}

\* The Regex that a successful build b returns: its configuration is a clone
\* of the builder's.
Regex_new(b) ==
    [config |-> b.config, options |-> b.options, newline |-> b.newline,
     capture_names_idx |-> b.idx]

\* A Regex whose configuration is the builder's own.
Regex_config_of_builder == config

\* self.config, as the methods of the Regex kept read it.
Regex_config == regex[1].config

\* Regex::new_match_data: the MatchConfig a MatchData is created with.
Regex_match_config == Regex_config.match_config

\* RegexBuilder::new(); no Regex built yet.
InitFlags ==
    /\ subject \in SubjectsUpTo(FlagMaxLen)
    /\ pattern = "b"
    /\ capture_names = <<None>>
    /\ memo = <<>>
    /\ scratch = None
    /\ locs = capture_locations
    /\ last = NoCall
    /\ NoIterators
    /\ NoThreads
    /\ NoCaptures
    /\ NoBuild

\* let re = builder.build(pattern)?: the caller keeps the Regex.
BuildKept ==
    /\ regex = None
    /\ \E eng \in EngineOutcomes :
        LET b == build(config, eng) IN
        /\ b.res = "Ok"
        /\ regex' = Some(Regex_new(b))
    /\ UNCHANGED <<subject, pattern, capture_names, memo, scratch, searchVars, iterVars,
                   threadVars, capVars, buildVars, jit_call>>

\* What a call on the Regex kept gave the engine: the options of its
\* searches, and the MatchConfig of the MatchData it created.
Flagged(op, searched, options, created) ==
    [op |-> op, searched |-> searched,
     options |-> IF searched THEN {options} ELSE {},
     match_config |-> IF created THEN Some(Regex_match_config) ELSE None]

\* re.is_match_at(subject, start) on the Regex kept.
KeptIsMatchAt ==
    /\ regex # None
    /\ \E start \in Starts : \E r \in EngineAnswers(memo, subject, start) :
        LET f == is_match_at(scratch, subject, start, r) IN
        /\ scratch' = f.cell
        /\ last' = Flagged("is_match_at", f.searched, is_match_at_options(Regex_config),
                           scratch = None /\ f.cell # None)
    /\ UNCHANGED <<subject, pattern, capture_names, memo, locs, iterVars, restVars>>

\* re.find_at(subject, start) on the Regex kept.
KeptFindAt ==
    /\ regex # None
    /\ \E start \in Starts : \E r \in EngineAnswers(memo, subject, start) :
        LET f == find_at(scratch, subject, start, r) IN
        /\ scratch' = f.cell
        /\ last' = Flagged("find_at", f.searched,
                           find_at_with_match_data_options(Regex_config),
                           scratch = None /\ f.cell # None)
    /\ UNCHANGED <<subject, pattern, capture_names, memo, locs, iterVars, restVars>>

\* re.captures_read_at(&mut locs, subject, start) on the Regex kept.
KeptCapturesReadAt ==
    /\ regex # None
    /\ \E start \in Starts : \E r \in EngineAnswers(memo, subject, start) :
        LET f == captures_read_at(locs, subject, start, r) IN
        /\ locs' = f.ov
        /\ last' = Flagged("captures_read_at", f.searched,
                           captures_read_at_options(Regex_config), FALSE)
    /\ UNCHANGED <<subject, pattern, capture_names, memo, scratch, iterVars, restVars>>

\* re.find_iter(subject) on the Regex kept: a new Matches, and this thread's
\* MatchData if there is none yet.
KeptFindIter ==
    /\ regex # None
    /\ scratch' = match_data(scratch)
    /\ last' = Flagged("find_iter", FALSE, {}, scratch = None)
    /\ m_it' = new_cursor
    /\ m_ret' = RetIdle
    /\ m_out' = <<>>
    /\ m_trace' = NoTrace
    /\ UNCHANGED <<subject, pattern, capture_names, memo, locs, restVars,
                   m_seen, c_it, c_ret, c_out, c_trace, c_seen>>

\* next() on the Matches of the Regex kept.
KeptMatchesNext ==
    /\ regex # None
    /\ scratch # None
    /\ m_ret \notin {RetPanic}
    /\ \E o \in Matches_next(m_it, scratch[1], memo, subject, NoTrace) :
        /\ m_it' = o.it
        /\ scratch' = Some(o.ov)
        /\ m_ret' = o.ret
        /\ m_trace' = o.trace
        /\ m_out' = IF o.ret.tag = "SomeOk" THEN Append(m_out, o.ret.item) ELSE m_out
        /\ last' = Flagged("Matches::next", o.trace.starts # <<>>,
                           find_at_with_match_data_options(Regex_config), FALSE)
    /\ UNCHANGED <<subject, pattern, capture_names, memo, locs, restVars, m_seen,
                   c_it, c_ret, c_out, c_trace, c_seen>>

\* next() on the CaptureMatches of re.captures_iter(subject), re the Regex
\* kept: each search has a CaptureLocations of its own.
KeptCaptureMatchesNext ==
    /\ regex # None
    /\ c_ret \notin {RetPanic}
    /\ \E o \in CaptureMatches_next(c_it, memo, subject, NoTrace) :
        /\ c_it' = o.it
        /\ c_ret' = o.ret
        /\ c_trace' = o.trace
        /\ c_out' = IF o.ret.tag = "SomeOk" THEN Append(c_out, o.ret.item) ELSE c_out
        /\ last' = Flagged("CaptureMatches::next", o.trace.starts # <<>>,
                           captures_read_at_options(Regex_config), o.trace.starts # <<>>)
    /\ UNCHANGED <<subject, pattern, capture_names, memo, scratch, locs, restVars,
                   m_it, m_ret, m_out, m_trace, m_seen, c_seen>>

NextFlags ==
    \/ DisableUtfCheck \/ MaxJitStackSize \/ Build \/ BuildKept
    \/ KeptIsMatchAt \/ KeptFindAt \/ KeptCapturesReadAt
    \/ KeptFindIter \/ KeptMatchesNext \/ KeptCaptureMatchesNext

SpecFlags == InitFlags /\ [][NextFlags]_vars

\* ------------------------------------------- claims on the match-time flags
KeptOps ==
    {"is_match_at", "find_at", "captures_read_at", "find_iter", "Matches::next",
     "CaptureMatches::next"}

\* C21: every engine search that a Regex issues, through is_match_at, find_at,
\* captures_read_at or the next() of either iterator, carries
\* PCRE2_NO_UTF_CHECK exactly when disable_utf_check had been called on the
\* builder when the Regex was built, and carries no other option.
C21_SkipUtfCheckFlag ==
    (regex # None /\ last.op \in KeptOps) =>
        \A o \in last.options :
            o = IF regex[1].config.utf_check THEN {} ELSE {"PCRE2_NO_UTF_CHECK"}

\* A search of each kind was made with the flag, one of them an iterator's.
C21_Witness ==
    /\ regex # None
    /\ ~regex[1].config.utf_check
    /\ last.op = "CaptureMatches::next"
    /\ last.options = {{"PCRE2_NO_UTF_CHECK"}}
    /\ m_out # <<>>

\* C28: build gives the Regex a copy of the configuration: whatever setters
\* are called on the builder afterwards, disable_utf_check and
\* max_jit_stack_size among them, the searches of a Regex built before pass
\* the options, and create their MatchData with the MatchConfig, of the
\* configuration it was built from; and a second build from a builder whose
\* configuration is as it was compiles with the same options.
C28_BuildSnapshot ==
    regex # None =>
        /\ last.op \in KeptOps =>
              /\ \A o \in last.options :
                    "PCRE2_NO_UTF_CHECK" \in o <=> ~regex[1].config.utf_check
              /\ last.match_config \in {None, Some(regex[1].config.match_config)}
        /\ (built # NotBuilt /\ built.config = regex[1].config) =>
              /\ built.options = regex[1].options
              /\ built.newline = regex[1].newline

\* The builder has had disable_utf_check and max_jit_stack_size called and
\* has built again since the Regex was built; a search of the Regex went
\* without the flag and created its MatchData without the limit.
C28_Witness ==
    /\ regex # None
    /\ regex[1].config.utf_check
    /\ ~config.utf_check
    /\ regex[1].config.match_config.max_jit_stack_size = None
    /\ config.match_config.max_jit_stack_size # None
    /\ built # NotBuilt
    /\ built.res = "Ok"
    /\ last.op = "is_match_at"
    /\ last.options = {{}}
    /\ last.match_config = Some(regex[1].config.match_config)

\* ------------------------------------------ several callers on one thread
OneThreadMaxLen == 1

\* Two pieces of one thread's code, each with a subject and a Matches of its
\* own: what they call on the Regex goes to the one slot of their thread.
InitOneThread ==
    /\ subject = <<>>
    /\ pattern \in {"a*", "b"}
    /\ capture_names = <<None>>
    /\ memo = <<>>
    /\ scratch = None
    /\ locs = capture_locations
    /\ last = NoCall
    /\ NoIterators
    /\ th \in {[t \in Threads |-> NewThread(g[t], "t1")] :
                   g \in [Threads -> SubjectsUpTo(OneThreadMaxLen)]}
    /\ cache = [t \in Threads |-> None]
    /\ borrowed = {}
    /\ users = [t \in Threads |-> {}]
    /\ allocs = [t \in Threads |-> 0]
    /\ NoCaptures
    /\ NoBuild

\* A thread runs one call at a time: while a call is under way, nothing else
\* of the thread's code takes a step.
OneCallAtATime ==
    \A u \in Threads :
        th[u].pc \in {"acquired", "searched"} =>
            \A t \in Threads \ {u} : th'[t] = th[t]

NextOneThread ==
    \/ (IsMatch /\ OneCallAtATime)
    \/ (Find /\ OneCallAtATime)
    \/ (FindIter /\ OneCallAtATime)
    \/ (BeginNext /\ OneCallAtATime)
    \/ (Search /\ OneCallAtATime)
    \/ (Finish /\ OneCallAtATime)
    \/ (Return /\ OneCallAtATime)

SpecOneThread == InitOneThread /\ [][NextOneThread]_vars

\* C27: on one thread, the next() calls of several find_iter iterators of
\* one Regex and its find and is_match calls, interleaved in any order, do
\* not interfere through the MatchData they share: every call returns, and
\* leaves its cursor, as it does with a MatchData of its own, so that each
\* iterator yields the sequence it yields alone; and no search finds the
\* MatchData borrowed already.
C27_SharedScratchNoInterference ==
    /\ \A t \in Threads : th[t].pc = "done" => SingleThreaded(th[t])
    /\ \A t \in Threads : th[t].res \notin {RetPanic, Panic}
    /\ Cardinality(borrowed) <= 1
    /\ \A t \in Threads : th[t].pc = "acquired" => th[t].slot \notin borrowed

\* Two iterators over different subjects have both moved on, one has just
\* yielded a match out of the MatchData that the other's search wrote before.
C27_Witness ==
    /\ th["t1"].subj # th["t2"].subj
    /\ th["t1"].it # None
    /\ th["t2"].it # None
    /\ th["t1"].it_slot = th["t2"].it_slot
    /\ th["t2"].it[1].last_match # None
    /\ th["t1"].pc = "done"
    /\ th["t1"].op = "next"
    /\ th["t1"].res.tag = "SomeOk"
    /\ th["t1"].it0.last_end > 0
    /\ allocs["t1"] = 1
    /\ allocs["t2"] = 0

====
